---- MODULE Spec2Model ----
(***************************************************************************)
(* Model of render() in render.py: the main thread prepares the inputs,    *)
(* runs the generator batch by batch and enqueues each raw batch to        *)
(* split_queue; the splitter thread (split_batches) turns batches into     *)
(* frames on render_queue; the renderer thread (make_video) writes the     *)
(* frames to the stdin of the ffmpeg subprocess.                           *)
(***************************************************************************)
EXTENDS Integers, Sequences, FiniteSets, TLC

\* ---------------------------------------------------------------- bounds
MaxN == 3
MaxB == 2
MaxScales == 2
MaxOffset == 5
MaxDuration == 2

\* ------------------------------------------------------ program constants
PanoramaWidth == 2048
CropMargin == 112
ResizeWidth == 1920
ResizeHeight == 1080
Channels == 3
QueueMaxsize == 0

\* ------------------------------------------------------------ python values
None == [kind |-> "None", id |-> 0, lo |-> 0, hi |-> 0, len |-> 0, pinned |-> FALSE, cuda |-> FALSE]

Tensor(i, l) == [kind |-> "tensor", id |-> i, lo |-> 0, hi |-> l, len |-> l, pinned |-> FALSE, cuda |-> FALSE]

IntScalar(v) == [kind |-> "int", id |-> v, lo |-> 0, hi |-> 0, len |-> 0, pinned |-> FALSE, cuda |-> FALSE]

FloatScalar(v) == [kind |-> "float", id |-> v, lo |-> 0, hi |-> 0, len |-> 0, pinned |-> FALSE, cuda |-> FALSE]

Min(a, b) == IF a < b THEN a ELSE b

\* t.float().contiguous().pin_memory()
Pinned(t) == [t EXCEPT !.pinned = TRUE]

\* an int has no method float(): truncation.float() raises AttributeError
HasFloatMethod(t) == t.kind = "tensor"

\* isinstance(truncation, float)
IsFloat(t) == t.kind = "float"

\* a slice that comes out empty when it would run past the end
SliceDroppingPartial(t, a, b) ==
    IF b > t.len THEN [t EXCEPT !.lo = Min(a, t.len), !.hi = Min(a, t.len), !.len = 0]
    ELSE [t EXCEPT !.lo = a, !.hi = b, !.len = b - a]

\* t[a : b] on the first dimension; python clamps both ends to the length
Slice(t, a, b) ==
    [t EXCEPT !.lo = Min(a, t.len), !.hi = Min(b, t.len), !.len = Min(b, t.len) - Min(a, t.len)]

\* t.cuda(non_blocking=True)
Cuda(t) == [t EXCEPT !.cuda = TRUE]

\* the names bound at module level (lines 1-13); original_weights is not one
ModuleGlobals == {"uuid", "queue", "ffmpeg", "PIL", "np", "th", "Thread", "render"}

\* output_size, already split at "x": <<width, height>>
OutputSize(size) ==
    IF size = 1024 THEN <<1024, 1024>>
    ELSE IF size = 512 THEN <<512, 512>> ELSE <<ResizeWidth, ResizeHeight>>

\* latents.float().contiguous().pin_memory()
Latents(len) == Pinned(Tensor(0, len))

\* the generator is an opaque callable: one image per style of the batch,
\* laid out <<batch, channels, height, width>>
Generator(styles, hw) ==
    [lo |-> styles.lo, hi |-> styles.hi, shape |-> <<styles.len, Channels, hw[1], hw[2]>>]

\* imgs.permute(dims): dims are 0-based
Permute(shape, dims) == [k \in 1..Len(dims) |-> shape[dims[k] + 1]]

\* the frames of a batch handed on last first
FramesReversed(batch) ==
    LET shape == Permute(batch.shape, <<0, 2, 3, 1>>)
    IN  [k \in 1..shape[1] |-> [idx |-> batch.hi - k, shape |-> Tail(shape)]]

\* the frames of a batch without its last one
FramesDroppingLast(batch) ==
    LET shape == Permute(batch.shape, <<0, 2, 3, 1>>)
    IN  [k \in 1..(shape[1] - 1) |-> [idx |-> batch.lo + k - 1, shape |-> Tail(shape)]]

\* split_batches: the frames of one raw batch, in order, each <<height, width, channels>>
Frames(batch) ==
    LET shape == Permute(batch.shape, <<0, 2, 3, 1>>)
    IN  [k \in 1..shape[1] |-> [idx |-> batch.lo + k - 1, shape |-> Tail(shape)]]

\* img.shape[k], 0-based
Dim(shape, k) == shape[k + 1]

\* img[:, 112:-112, :]
Crop(shape) == <<Dim(shape, 0), Dim(shape, 1) - 2 * CropMargin, Dim(shape, 2)>>

\* np.array(PIL.Image.fromarray(img).resize((1920, 1080), BILINEAR))
Resize(shape) == <<ResizeHeight, ResizeWidth, Dim(shape, 2)>>

\* lines 77-80
Process(shape) == IF Dim(shape, 1) = PanoramaWidth THEN Resize(Crop(shape)) ELSE shape

\* the parenthesised operand of the assert statement: a 2-tuple (condition, message)
AssertOperand(shape, size) ==
    << Dim(shape, 1) = OutputSize(size)[2] /\ Dim(shape, 2) = OutputSize(size)[1],
       "generator's output image size does not match specified output size" >>

\* python truth value of a tuple: non-empty
Truthy(tuple) == Len(tuple) # 0

\* lines 81-84: whether the assert statement passes
AssertPasses(shape, size) == Truthy(AssertOperand(shape, size))

\* a noise batch that fills an absent scale with a fresh tensor
NoiseBatchSynthesizing(noise_list, a, b) ==
    [k \in 1..Len(noise_list) |->
        IF noise_list[k] # None THEN Cuda(Slice(noise_list[k], a, b))
        ELSE Cuda(Tensor(k, b - a))]

\* lines 118-123
NoiseBatch(noise_list, a, b) ==
    [k \in 1..Len(noise_list) |->
        IF noise_list[k] # None THEN Cuda(Slice(noise_list[k], a, b)) ELSE None]

\* line 138
TruncationBatch(t, a, b) == IF ~IsFloat(t) THEN Slice(t, a, b) ELSE t

\* audio_file=None
NoFile == "None"

\* the encoder has no audio input
NoAudio == [file |-> NoFile, ss |-> 0, to |-> 0]

\* an audio input cut to a window as long as the video but starting at 0
AudioInputFromZero(file, start, length) == [file |-> file, ss |-> 0, to |-> length]

\* line 47: ffmpeg.input(audio_file, ss=offset, to=offset + duration, ...)
AudioInput(file, start, length) == [file |-> file, ss |-> start, to |-> start + length]

\* len(latents) / duration, kept as the fraction it is
FrameRate(len, length) == [num |-> len, den |-> length]

\* lines 46-71: what the subprocess is started with
EncoderConfig(file, start, length, len, size) ==
    [running |-> TRUE,
     s |-> OutputSize(size),
     framerate_in |-> FrameRate(len, length),
     framerate_out |-> FrameRate(len, length),
     audio |-> IF file # NoFile THEN AudioInput(file, start, length) ELSE NoAudio]

\* before line 46 there is no subprocess
NotConfigured ==
    [running |-> FALSE, s |-> <<0, 0>>, framerate_in |-> FrameRate(0, 1),
     framerate_out |-> FrameRate(0, 1), audio |-> NoAudio]

\* ------------------------------------------------------------ input spaces
OutSizes == {512, 1024, 1920}

\* (height, width) of the images the generator is configured to produce
FrameShapes == {<<512, 512>>, <<1024, 1024>>, <<1024, 2048>>}

Params == {"w"}

NoiseLists ==
    UNION {[1..k -> {"absent", "tensor"}] : k \in 0..MaxScales}

\* the caller's noise list: per scale a tensor over the N frames, or None
NoiseOf(choice, len) ==
    [k \in 1..Len(choice) |-> IF choice[k] = "absent" THEN None ELSE Tensor(k, len)]

\* truncation: the default 1 (an int), a float, or a per-frame tensor
Truncations(len) == {IntScalar(1), FloatScalar(7), Tensor(0, len)}

VARIABLES
    N,              \* len(latents)
    batch_size,
    out_size,
    frame_hw,       \* generator's image size <<height, width>>
    noise,
    noise_in,       \* the noise list as the caller supplied it
    truncation,
    truncation_in,  \* the truncation argument as the caller supplied it
    rewrites,       \* the parameter names of the rewrites mapping
    original_weights, \* the snapshot map; the module never binds this name
    sched_pc,       \* position of render()'s own (main thread) code
    sched_err,      \* where render() raised, "none" while it has not
    n,              \* loop variable of the batch loop
    outputs,        \* the generator's result awaiting split_queue.put
    calls,          \* generator invocations so far, with their arguments
    put_log,        \* batches enqueued to split_queue so far
    split_queue,
    render_queue,
    splitter_pc,
    imgs,           \* split_batches: frames of the current batch not yet put
    renderer_pc,
    count,          \* make_video: completed iterations of its for loop
    written,        \* frames written to video.stdin
    stdin_closed,
    encoder,        \* the ffmpeg subprocess
    awaited,        \* video.wait() has returned
    stalled,        \* a receive timed out while its producer was still at work
    split_got,      \* batches split_batches has received from split_queue
    frames_put,     \* frames split_batches has enqueued to render_queue
    frames_got,     \* frames make_video has received from render_queue
    offset,
    duration,
    audio_file,
    encoder_cfg     \* the inputs and options the ffmpeg subprocess was started with

vars == <<N, batch_size, out_size, frame_hw, noise, noise_in, truncation, truncation_in,
          rewrites, original_weights, sched_pc, sched_err, n, outputs, calls, put_log,
          split_queue, render_queue, splitter_pc, imgs, renderer_pc, count, written,
          stdin_closed, encoder, awaited, stalled, split_got, frames_put, frames_got,
          offset, duration, audio_file, encoder_cfg>>

\* the hand-off histories of the two queues
logs == <<split_got, frames_put, frames_got>>

\* the arguments that only configure the encoder
encoder_args == <<offset, duration, audio_file>>

\* everything of a run but the encoder's arguments starts the same way
InitState ==
    /\ noise = noise_in
    /\ truncation = truncation_in
    /\ original_weights = <<>>
    /\ sched_pc = "start"
    /\ sched_err = "none"
    /\ n = 0
    /\ outputs = <<>>
    /\ calls = <<>>
    /\ put_log = <<>>
    /\ split_queue = <<>>
    /\ render_queue = <<>>
    /\ splitter_pc = "created"
    /\ imgs = <<>>
    /\ renderer_pc = "created"
    /\ count = 0
    /\ written = <<>>
    /\ stdin_closed = FALSE
    /\ encoder = "not_started"
    /\ awaited = FALSE
    /\ stalled = FALSE
    /\ split_got = <<>>
    /\ frames_put = <<>>
    /\ frames_got = <<>>
    /\ encoder_cfg = NotConfigured

Init ==
    /\ N \in 0..MaxN
    /\ batch_size \in 1..MaxB
    /\ out_size \in OutSizes
    /\ frame_hw \in FrameShapes
    /\ \E c \in NoiseLists : noise_in = NoiseOf(c, N)
    /\ noise = noise_in
    /\ truncation_in \in Truncations(N)
    /\ truncation = truncation_in
    /\ rewrites \in SUBSET Params
    /\ original_weights = <<>>
    /\ sched_pc = "start"
    /\ sched_err = "none"
    /\ n = 0
    /\ outputs = <<>>
    /\ calls = <<>>
    /\ put_log = <<>>
    /\ split_queue = <<>>
    /\ render_queue = <<>>
    /\ splitter_pc = "created"
    /\ imgs = <<>>
    /\ renderer_pc = "created"
    /\ count = 0
    /\ written = <<>>
    /\ stdin_closed = FALSE
    /\ encoder = "not_started"
    /\ awaited = FALSE
    /\ stalled = FALSE
    /\ split_got = <<>>
    /\ frames_put = <<>>
    /\ frames_got = <<>>
    /\ offset = 0
    /\ duration = 1
    /\ audio_file = NoFile
    /\ encoder_cfg = NotConfigured

\* runs that differ in the encoder's arguments: offset, duration, audio file
AudioInit ==
    /\ N \in 0..MaxN
    /\ batch_size \in 1..MaxB
    /\ out_size \in OutSizes
    /\ frame_hw = <<512, 512>>
    /\ noise_in = <<>>
    /\ truncation_in = FloatScalar(7)
    /\ rewrites = {}
    /\ offset \in 0..MaxOffset
    /\ duration \in 1..MaxDuration
    /\ audio_file \in {NoFile, "audio.wav"}
    /\ InitState

\* ------------------------------------------------------------ main thread
\* lines 45-93: start ffmpeg listening on stdin, create the two threads
StartEncoder ==
    /\ sched_pc = "start"
    /\ encoder' = "running"
    /\ sched_pc' = "setup_noise"
    /\ encoder_cfg' = EncoderConfig(audio_file, offset, duration, N, out_size)
    /\ UNCHANGED <<logs, encoder_args>>
    /\ UNCHANGED <<N, batch_size, out_size, frame_hw, noise, noise_in, truncation,
                   truncation_in, rewrites, original_weights, sched_err, n, outputs, calls,
                   put_log, split_queue, render_queue, splitter_pc, imgs, renderer_pc,
                   count, written, stdin_closed, awaited, stalled>>

\* lines 97-100
SetupNoise ==
    /\ sched_pc = "setup_noise"
    /\ noise' = [k \in 1..Len(noise) |-> IF noise[k] # None THEN Pinned(noise[k]) ELSE None]
    /\ sched_pc' = "setup_rewrites"
    /\ UNCHANGED <<logs, encoder_args, encoder_cfg>>
    /\ UNCHANGED <<N, batch_size, out_size, frame_hw, noise_in, truncation, truncation_in,
                   rewrites, original_weights, sched_err, n, outputs, calls, put_log,
                   split_queue, render_queue, splitter_pc, imgs, renderer_pc, count,
                   written, stdin_closed, encoder, awaited, stalled>>

\* lines 102-105: the first rewritten parameter reaches line 105, where the
\* name original_weights is looked up
SetupRewrites ==
    /\ sched_pc = "setup_rewrites"
    /\ IF rewrites = {}
       THEN /\ sched_pc' = "setup_truncation"
            /\ UNCHANGED <<original_weights, sched_err>>
       ELSE IF "original_weights" \in ModuleGlobals
       THEN /\ original_weights' = [p \in rewrites |-> "original"]
            /\ sched_pc' = "setup_truncation"
            /\ UNCHANGED sched_err
       ELSE /\ sched_pc' = "raised"
            /\ sched_err' = "L105"
            /\ UNCHANGED original_weights
    /\ UNCHANGED <<logs, encoder_args, encoder_cfg>>
    /\ UNCHANGED <<N, batch_size, out_size, frame_hw, noise, noise_in, truncation,
                   truncation_in, rewrites, n, outputs, calls, put_log, split_queue,
                   render_queue, splitter_pc, imgs, renderer_pc, count, written,
                   stdin_closed, encoder, awaited, stalled>>

\* lines 107-112 (bends carry no state the model follows)
SetupTruncation ==
    /\ sched_pc = "setup_truncation"
    /\ IF IsFloat(truncation)
       THEN /\ sched_pc' = "loop"
            /\ UNCHANGED <<truncation, sched_err>>
       ELSE IF HasFloatMethod(truncation)
       THEN /\ truncation' = Pinned(truncation)
            /\ sched_pc' = "loop"
            /\ UNCHANGED sched_err
       ELSE /\ sched_pc' = "raised"
            /\ sched_err' = "L112"
            /\ UNCHANGED truncation
    /\ UNCHANGED <<logs, encoder_args, encoder_cfg>>
    /\ UNCHANGED <<N, batch_size, out_size, frame_hw, noise, noise_in, truncation_in,
                   rewrites, original_weights, n, outputs, calls, put_log, split_queue,
                   render_queue, splitter_pc, imgs, renderer_pc, count, written,
                   stdin_closed, encoder, awaited, stalled>>

\* a loop step that skips one sample between batches
NextStartSkipping(start, size) == start + size + 1

\* queue.Queue(maxsize): put blocks while the queue is full, and a maxsize of
\* zero or less means the queue is never full
Full(q) == QueueMaxsize > 0 /\ Len(q) >= QueueMaxsize

\* line 114: range(0, len(latents), batch_size) advances by batch_size
NextStart(start, size) == start + size

\* a test that lets every batch start the workers
IsFirstBatchAlways(start) == start >= 0

\* line 153: if n == 0
IsFirstBatch(start) == start = 0

\* the batch loop has another batch to run
MoreBatches == sched_pc = "loop" /\ n < N

\* lines 114-148: slice this batch's inputs and run the generator
Generate ==
    /\ MoreBatches
    /\ IF rewrites # {}
       THEN \* line 135 calls rewrites[param], which line 104 made a list
            /\ sched_pc' = "raised"
            /\ sched_err' = "L135"
            /\ UNCHANGED <<calls, outputs>>
       ELSE LET latent_batch == Cuda(Slice(Latents(N), n, n + batch_size))
                noise_batch == NoiseBatch(noise, n, n + batch_size)
                truncation_batch == TruncationBatch(truncation, n, n + batch_size)
            IN  /\ calls' = Append(calls, [styles |-> latent_batch,
                                          noise |-> noise_batch,
                                          truncation |-> truncation_batch])
                /\ outputs' = Generator(latent_batch, frame_hw)
                /\ sched_pc' = "put"
                /\ UNCHANGED sched_err
    /\ UNCHANGED <<logs, encoder_args, encoder_cfg>>
    /\ UNCHANGED <<N, batch_size, out_size, frame_hw, noise, noise_in, truncation,
                   truncation_in, rewrites, original_weights, n, put_log, split_queue,
                   render_queue, splitter_pc, imgs, renderer_pc, count, written,
                   stdin_closed, encoder, awaited, stalled>>

\* lines 116-148: an accelerator error during transfer or inference aborts render()
GenerateFails ==
    /\ MoreBatches
    /\ sched_pc' = "raised"
    /\ sched_err' = "accelerator"
    /\ UNCHANGED <<logs, encoder_args, encoder_cfg>>
    /\ UNCHANGED <<N, batch_size, out_size, frame_hw, noise, noise_in, truncation,
                   truncation_in, rewrites, original_weights, n, outputs, calls, put_log,
                   split_queue, render_queue, splitter_pc, imgs, renderer_pc, count,
                   written, stdin_closed, encoder, awaited, stalled>>

\* line 151, and the loop's step when this was not the first batch
Put ==
    /\ sched_pc = "put"
    /\ ~Full(split_queue)
    /\ split_queue' = Append(split_queue, outputs)
    /\ put_log' = Append(put_log, outputs)
    /\ IF IsFirstBatch(n)
       THEN sched_pc' = "start_workers" /\ n' = n
       ELSE sched_pc' = "loop" /\ n' = NextStart(n, batch_size)
    /\ UNCHANGED <<logs, encoder_args, encoder_cfg>>
    /\ UNCHANGED <<N, batch_size, out_size, frame_hw, noise, noise_in, truncation,
                   truncation_in, rewrites, original_weights, sched_err, outputs, calls,
                   render_queue, splitter_pc, imgs, renderer_pc, count, written,
                   stdin_closed, encoder, awaited, stalled>>

\* lines 153-155
StartWorkers ==
    /\ sched_pc = "start_workers"
    /\ splitter_pc' = "get"
    /\ renderer_pc' = "get"
    /\ n' = NextStart(n, batch_size)
    /\ sched_pc' = "loop"
    /\ UNCHANGED <<logs, encoder_args, encoder_cfg>>
    /\ UNCHANGED <<N, batch_size, out_size, frame_hw, noise, noise_in, truncation,
                   truncation_in, rewrites, original_weights, sched_err, outputs, calls,
                   put_log, split_queue, render_queue, imgs, count, written, stdin_closed,
                   encoder, awaited, stalled>>

\* line 114: range() is exhausted
LoopExit ==
    /\ sched_pc = "loop"
    /\ n >= N
    /\ sched_pc' = "join_splitter"
    /\ UNCHANGED <<logs, encoder_args, encoder_cfg>>
    /\ UNCHANGED <<N, batch_size, out_size, frame_hw, noise, noise_in, truncation,
                   truncation_in, rewrites, original_weights, sched_err, n, outputs, calls,
                   put_log, split_queue, render_queue, splitter_pc, imgs, renderer_pc,
                   count, written, stdin_closed, encoder, awaited, stalled>>

\* line 157: joining a thread that was never started raises RuntimeError
JoinSplitter ==
    /\ sched_pc = "join_splitter"
    /\ splitter_pc \in {"created", "done"}
    /\ IF splitter_pc = "created"
       THEN sched_pc' = "raised" /\ sched_err' = "L157"
       ELSE sched_pc' = "join_renderer" /\ UNCHANGED sched_err
    /\ UNCHANGED <<logs, encoder_args, encoder_cfg>>
    /\ UNCHANGED <<N, batch_size, out_size, frame_hw, noise, noise_in, truncation,
                   truncation_in, rewrites, original_weights, n, outputs, calls, put_log,
                   split_queue, render_queue, splitter_pc, imgs, renderer_pc, count,
                   written, stdin_closed, encoder, awaited, stalled>>

\* line 158: join returns once the thread has ended, however it ended
JoinRenderer ==
    /\ sched_pc = "join_renderer"
    /\ renderer_pc \in {"done", "raised_empty", "raised_assert"}
    /\ sched_pc' = "returned"
    /\ UNCHANGED <<logs, encoder_args, encoder_cfg>>
    /\ UNCHANGED <<N, batch_size, out_size, frame_hw, noise, noise_in, truncation,
                   truncation_in, rewrites, original_weights, sched_err, n, outputs, calls,
                   put_log, split_queue, render_queue, splitter_pc, imgs, renderer_pc,
                   count, written, stdin_closed, encoder, awaited, stalled>>

\* ------------------------------------------------------------ split_batches
\* lines 35, 38-39: a batch is received and converted
SplitterGet ==
    /\ splitter_pc = "get"
    /\ split_queue # <<>>
    /\ imgs' = Frames(Head(split_queue))
    /\ split_queue' = Tail(split_queue)
    /\ splitter_pc' = IF imgs' = <<>> THEN "get" ELSE "put"
    /\ split_got' = Append(split_got, Head(split_queue))
    /\ UNCHANGED <<frames_put, frames_got, encoder_args, encoder_cfg>>
    /\ UNCHANGED <<N, batch_size, out_size, frame_hw, noise, noise_in, truncation,
                   truncation_in, rewrites, original_weights, sched_pc, sched_err, n,
                   outputs, calls, put_log, render_queue, renderer_pc, count, written,
                   stdin_closed, encoder, awaited, stalled>>

\* lines 40-42: one frame of the batch is enqueued
SplitterPut ==
    /\ splitter_pc = "put"
    /\ ~Full(render_queue)
    /\ render_queue' = Append(render_queue, Head(imgs))
    /\ imgs' = Tail(imgs)
    /\ splitter_pc' = IF imgs' = <<>> THEN "get" ELSE "put"
    /\ frames_put' = Append(frames_put, Head(imgs))
    /\ UNCHANGED <<split_got, frames_got, encoder_args, encoder_cfg>>
    /\ UNCHANGED <<N, batch_size, out_size, frame_hw, noise, noise_in, truncation,
                   truncation_in, rewrites, original_weights, sched_pc, sched_err, n,
                   outputs, calls, put_log, split_queue, renderer_pc, count, written,
                   stdin_closed, encoder, awaited, stalled>>

\* the main thread has batches left to enqueue and has not raised
SchedulerProducing == MoreBatches \/ sched_pc = "put"

\* lines 35-37: nothing arrived within the timeout; split_batches returns
SplitterTimeout ==
    /\ splitter_pc = "get"
    /\ split_queue = <<>>
    /\ splitter_pc' = "done"
    /\ stalled' = (stalled \/ SchedulerProducing)
    /\ UNCHANGED <<logs, encoder_args, encoder_cfg>>
    /\ UNCHANGED <<N, batch_size, out_size, frame_hw, noise, noise_in, truncation,
                   truncation_in, rewrites, original_weights, sched_pc, sched_err, n,
                   outputs, calls, put_log, split_queue, render_queue, imgs, renderer_pc,
                   count, written, stdin_closed, encoder, awaited>>

\* ------------------------------------------------------------ make_video
\* a loop that stops one frame early
MoreFramesOffByOne(done, total) == done + 1 < total

\* line 75: for _ in range(len(latents)) has iterations left
MoreFrames(done, total) == done < total

\* lines 76-86: one iteration of the for loop
RendererWrite ==
    /\ renderer_pc = "get"
    /\ render_queue # <<>>
    /\ LET img == Head(render_queue)
           shape == Process(img.shape)
       IN  IF AssertPasses(shape, out_size)
           THEN /\ written' = Append(written, [idx |-> img.idx, shape |-> shape,
                                               from |-> img.shape])
                /\ count' = count + 1
                /\ renderer_pc' = IF MoreFrames(count + 1, N) THEN "get" ELSE "close"
           ELSE /\ renderer_pc' = "raised_assert"
                /\ UNCHANGED <<written, count>>
    /\ render_queue' = Tail(render_queue)
    /\ frames_got' = Append(frames_got, Head(render_queue))
    /\ UNCHANGED <<split_got, frames_put, encoder_args, encoder_cfg>>
    /\ UNCHANGED <<N, batch_size, out_size, frame_hw, noise, noise_in, truncation,
                   truncation_in, rewrites, original_weights, sched_pc, sched_err, n,
                   outputs, calls, put_log, split_queue, splitter_pc, imgs, stdin_closed,
                   encoder, awaited, stalled>>

\* jobs_in.get() with no timeout: the thread stays blocked
RendererBlocksForever ==
    /\ FALSE
    /\ UNCHANGED vars

\* line 76: nothing arrived within the timeout; queue.Empty ends the thread
RendererTimeout ==
    /\ renderer_pc = "get"
    /\ render_queue = <<>>
    /\ renderer_pc' = "raised_empty"
    /\ stalled' = (stalled \/ (splitter_pc # "done" /\ sched_err = "none"))
    /\ UNCHANGED <<logs, encoder_args, encoder_cfg>>
    /\ UNCHANGED <<N, batch_size, out_size, frame_hw, noise, noise_in, truncation,
                   truncation_in, rewrites, original_weights, sched_pc, sched_err, n,
                   outputs, calls, put_log, split_queue, render_queue, splitter_pc, imgs,
                   count, written, stdin_closed, encoder, awaited>>

\* line 87
RendererClose ==
    /\ renderer_pc = "close"
    /\ stdin_closed' = TRUE
    /\ renderer_pc' = "wait"
    /\ UNCHANGED <<logs, encoder_args, encoder_cfg>>
    /\ UNCHANGED <<N, batch_size, out_size, frame_hw, noise, noise_in, truncation,
                   truncation_in, rewrites, original_weights, sched_pc, sched_err, n,
                   outputs, calls, put_log, split_queue, render_queue, splitter_pc, imgs,
                   count, written, encoder, awaited, stalled>>

\* ffmpeg finishes the file and exits once its stdin reaches end of file
EncoderExit ==
    /\ encoder = "running"
    /\ stdin_closed
    /\ encoder' = "exited"
    /\ UNCHANGED <<logs, encoder_args, encoder_cfg>>
    /\ UNCHANGED <<N, batch_size, out_size, frame_hw, noise, noise_in, truncation,
                   truncation_in, rewrites, original_weights, sched_pc, sched_err, n,
                   outputs, calls, put_log, split_queue, render_queue, splitter_pc, imgs,
                   renderer_pc, count, written, stdin_closed, awaited, stalled>>

\* line 88
RendererWait ==
    /\ renderer_pc = "wait"
    /\ encoder = "exited"
    /\ awaited' = TRUE
    /\ renderer_pc' = "done"
    /\ UNCHANGED <<logs, encoder_args, encoder_cfg>>
    /\ UNCHANGED <<N, batch_size, out_size, frame_hw, noise, noise_in, truncation,
                   truncation_in, rewrites, original_weights, sched_pc, sched_err, n,
                   outputs, calls, put_log, split_queue, render_queue, splitter_pc, imgs,
                   count, written, stdin_closed, encoder, stalled>>

\* ------------------------------------------------------------ specification
Scheduler ==
    \/ StartEncoder
    \/ SetupNoise
    \/ SetupRewrites
    \/ SetupTruncation
    \/ Generate
    \/ GenerateFails
    \/ Put
    \/ StartWorkers
    \/ LoopExit
    \/ JoinSplitter
    \/ JoinRenderer

Splitter == SplitterGet \/ SplitterPut \/ SplitterTimeout

Renderer == RendererWrite \/ RendererTimeout \/ RendererClose \/ RendererWait

Next == Scheduler \/ Splitter \/ Renderer \/ EncoderExit

Spec == Init /\ [][Next]_vars

AudioSpec == AudioInit /\ [][Next]_vars

\* The runs whose termination is examined: the noise list and the frame size
\* decide no branch of any thread, so one of each stands for all.
FairInit ==
    /\ Init
    /\ noise_in = <<>>
    /\ frame_hw = <<512, 512>>

\* The two worker threads and the subprocess keep running whatever the main
\* thread does; a receive on a queue that stays empty times out.  The main
\* thread may stall or be stopped at any point, so it gets no fairness.
FairSpec ==
    /\ FairInit
    /\ [][Next]_vars
    /\ WF_vars(Splitter)
    /\ WF_vars(Renderer)
    /\ WF_vars(EncoderExit)

\* ------------------------------------------------------------ properties
CeilDiv(a, b) == (a + b - 1) \div b

\* render() is past its batch loop without having raised
LoopDone == sched_pc \in {"join_splitter", "join_renderer", "returned"}

C2_BatchSchedule ==
    /\ Len(put_log) <= Len(calls)
    /\ Len(calls) <= Len(put_log) + 1
    /\ Len(calls) <= CeilDiv(N, batch_size)
    /\ \A k \in 1..Len(calls) :
          /\ calls[k].styles.lo = (k - 1) * batch_size
          /\ calls[k].styles.hi = Min(k * batch_size, N)
          /\ calls[k].styles.len = calls[k].styles.hi - calls[k].styles.lo
          /\ (k < CeilDiv(N, batch_size) => calls[k].styles.len = batch_size)
    /\ \A k \in 1..Len(put_log) :
          /\ put_log[k].lo = calls[k].styles.lo
          /\ put_log[k].hi = calls[k].styles.hi
          /\ put_log[k].shape[1] = calls[k].styles.len
    /\ LoopDone => /\ Len(calls) = CeilDiv(N, batch_size)
                   /\ Len(put_log) = CeilDiv(N, batch_size)

C2_Witness ==
    /\ LoopDone
    /\ N = 3
    /\ batch_size = 2
    /\ Len(put_log) = 2
    /\ put_log[1].shape[1] = 2
    /\ put_log[2].shape[1] = 1

\* C3: in a run with a non-empty Rewrite Spec, once the per-run setup of the
\* rewrites is over the snapshot map holds the original value of every
\* rewritten parameter, it stays that way, and render() does not fail at
\* the lines that take the snapshot and hand it to the transform.
C3_RewriteUsesSnapshot ==
    (rewrites # {} /\ sched_pc \notin {"start", "setup_noise", "setup_rewrites"}) =>
        /\ DOMAIN original_weights = rewrites
        /\ \A p \in rewrites : original_weights[p] = "original"
        /\ sched_err \notin {"L105", "L135"}

\* C4: in every generator call the noise list has the length of the
\* caller's noise list, its entry at scale k is None exactly when the
\* caller's entry at scale k is None, and a present entry is the slice of
\* that scale's tensor for the batch.
C4_NoiseAbsence ==
    \A c \in 1..Len(calls) :
        /\ Len(calls[c].noise) = Len(noise_in)
        /\ \A k \in 1..Len(noise_in) :
              /\ (calls[c].noise[k] = None) <=> (noise_in[k] = None)
              /\ noise_in[k] # None =>
                    /\ calls[c].noise[k].id = noise_in[k].id
                    /\ calls[c].noise[k].lo = calls[c].styles.lo
                    /\ calls[c].noise[k].hi = calls[c].styles.hi

C4_Witness ==
    /\ Len(calls) = 2
    /\ Len(noise_in) = 2
    /\ noise_in[1] = None
    /\ noise_in[2] # None
    /\ calls[2].noise[1] = None
    /\ calls[2].noise[2].kind = "tensor"

\* C5: a scalar truncation (the default 1 included) reaches every generator
\* call unchanged and render() never fails converting it; a tensor
\* truncation reaches each call sliced to the call's index range.
C5_TruncationPerBatch ==
    /\ truncation_in.kind \in {"int", "float"} =>
          /\ sched_err # "L112"
          /\ \A c \in 1..Len(calls) : calls[c].truncation = truncation_in
    /\ truncation_in.kind = "tensor" =>
          \A c \in 1..Len(calls) :
              /\ calls[c].truncation.lo = calls[c].styles.lo
              /\ calls[c].truncation.hi = calls[c].styles.hi

\* the declared output size is the 16:9 one
Target1920 == OutputSize(out_size) = <<ResizeWidth, ResizeHeight>>

\* C6: a written frame was cropped and resized exactly when it arrived 2048
\* wide and the output size is 1920x1080, and it then is 1080 x 1920.
C6_CropResizeOnlyFor1920 ==
    \A i \in 1..Len(written) :
        /\ (written[i].shape # written[i].from) <=>
              (Dim(written[i].from, 1) = PanoramaWidth /\ Target1920)
        /\ (Dim(written[i].from, 1) = PanoramaWidth /\ Target1920) =>
              written[i].shape = <<ResizeHeight, ResizeWidth, Channels>>

\* a frame as received has the declared output size
MatchesTarget(shape) ==
    /\ Dim(shape, 0) = OutputSize(out_size)[2]
    /\ Dim(shape, 1) = OutputSize(out_size)[1]

\* C7: no frame whose size differs from the declared output size is written
\* to the encoder, the 2048-wide frame with target 1920x1080 excepted, and
\* no frame is written after such a frame was received.
C7_MismatchNeverWritten ==
    \A i \in 1..Len(written) :
        \/ MatchesTarget(written[i].from)
        \/ (Dim(written[i].from, 1) = PanoramaWidth /\ Target1920)

\* C8: once the workers run, whatever the main thread does from then on
\* (raise, stall for ever, go on), split_batches ends and make_video ends;
\* make_video ends through its receive timeout unless every batch was
\* enqueued.
C8_WorkersTerminate ==
    (splitter_pc # "created") ~>
        /\ splitter_pc = "done"
        /\ \/ renderer_pc = "raised_empty"
           \/ renderer_pc = "done" /\ Len(put_log) = CeilDiv(N, batch_size)

C8_Witness ==
    /\ sched_err = "accelerator"
    /\ Len(put_log) >= 1
    /\ Len(put_log) < CeilDiv(N, batch_size)
    /\ splitter_pc = "done"
    /\ renderer_pc = "raised_empty"

\* C9: whenever render() has returned, every batch was enqueued,
\* split_batches has ended with split_queue empty, and make_video has
\* consumed N frames, closed the encoder's stdin and awaited the encoder.
C9_ReturnMeansComplete ==
    sched_pc = "returned" =>
        /\ Len(put_log) = CeilDiv(N, batch_size)
        /\ splitter_pc = "done"
        /\ split_queue = <<>>
        /\ count = N
        /\ stdin_closed
        /\ awaited

\* both workers have ended or were never started
WorkersAtRest ==
    /\ splitter_pc \in {"created", "done"}
    /\ renderer_pc \in {"created", "done", "raised_empty", "raised_assert"}

\* C10: when the main thread has aborted on an accelerator error after the
\* encoder was started, and the workers have run to their end, the
\* encoder's stdin is closed and the encoder was awaited.
C10_AbortClosesEncoder ==
    (sched_err = "accelerator" /\ WorkersAtRest) => (stdin_closed /\ awaited)

\* make_video died on an exception
RendererFailed == renderer_pc \in {"raised_empty", "raised_assert"}

\* split_batches ended although not every frame of the run was handed on
SplitterStoppedShort == splitter_pc = "done" /\ Len(frames_put) < N

\* C11: when make_video has died on its receive timeout or its size check,
\* or split_batches has stopped before every batch was formatted, render()
\* does not return normally.
C11_WorkerFailureSurfaces ==
    (RendererFailed \/ SplitterStoppedShort) => sched_pc # "returned"

\* C12: the encoder's stdin is closed only once exactly N frames have been
\* written; after closing, make_video waits for the encoder to exit and
\* only then ends; and every write to the stdin is a step of make_video's
\* loop and every close is make_video's line 87.
C12_CloseAfterNFramesByMakeVideo ==
    /\ [](stdin_closed => (Len(written) = N /\ count = N))
    /\ [](stdin_closed => renderer_pc \in {"wait", "done"})
    /\ [](renderer_pc = "done" => (awaited /\ encoder = "exited"))
    /\ [](awaited => stdin_closed)
    /\ [][written' # written => RendererWrite]_vars
    /\ [][stdin_closed' # stdin_closed => RendererClose]_vars

C12_Witness ==
    /\ N = 3
    /\ Len(written) = 3
    /\ stdin_closed
    /\ awaited
    /\ renderer_pc = "done"

\* a is an initial part of b
IsPrefix(a, b) == Len(a) <= Len(b) /\ \A i \in 1..Len(a) : a[i] = b[i]

\* C13: the frames written are frames 0, 1, 2, ... with none beyond N-1;
\* what was received from each queue is an initial part of what was put on
\* it, and what was put and not yet received is still on the queue, in
\* order.
C13_FifoNoReorderNoLoss ==
    /\ Len(written) <= N
    /\ \A i \in 1..Len(written) : written[i].idx = i - 1
    /\ IsPrefix(split_got, put_log)
    /\ put_log = split_got \o split_queue
    /\ IsPrefix(frames_got, frames_put)
    /\ frames_put = frames_got \o render_queue
    /\ \A i \in 1..Len(written) : written[i].idx = frames_got[i].idx

C13_Witness ==
    /\ N = 3
    /\ batch_size = 2
    /\ Len(split_got) = 2
    /\ Len(frames_got) = 3
    /\ Len(written) = 3

\* C14: each queue stays at or below a capacity that does not grow with the
\* run: whatever that capacity is, a run with more frames than it never has
\* all of its frames, or all of its batches, waiting on a queue at once.
\* Stated for the longest runs modelled: neither queue ever holds MaxN items.
C14_QueuesBounded ==
    /\ Len(split_queue) < MaxN
    /\ Len(render_queue) < MaxN

\* C15: the caller's noise list holds after render() what it held before:
\* the same objects at every scale.
C15_CallerInputsUnmodified == noise = noise_in

\* C16: the encoder is started with the audio file cut to
\* [offset, offset + duration] when an audio file is given and with no
\* audio input when none is; its input and output frame rate is
\* N / duration either way.
C16_AudioWindowAndFrameRate ==
    encoder_cfg.running =>
        /\ audio_file # NoFile =>
              encoder_cfg.audio = [file |-> audio_file, ss |-> offset, to |-> offset + duration]
        /\ audio_file = NoFile => encoder_cfg.audio = NoAudio
        /\ encoder_cfg.framerate_in = [num |-> N, den |-> duration]
        /\ encoder_cfg.framerate_out = [num |-> N, den |-> duration]

C16_Witness ==
    /\ encoder_cfg.running
    /\ audio_file # NoFile
    /\ offset = 5
    /\ duration = 2
    /\ encoder_cfg.audio.ss = 5
    /\ encoder_cfg.audio.to = 7

\* C17: a run with a non-empty Rewrite Spec (and a truncation render()
\* accepts) builds the snapshot map for every rewritten parameter in its
\* setup and goes on to its batches: if it stops on an exception at all,
\* the snapshot is in place and the exception is an accelerator error.
C17_SnapshotBuiltThenBatches ==
    (rewrites # {} /\ truncation_in.kind # "int" /\ sched_pc = "raised") =>
        /\ DOMAIN original_weights = rewrites
        /\ sched_err = "accelerator"

\* no receive has timed out on a producer still at work, and render() has
\* not raised
Healthy == ~stalled /\ sched_err = "none"

\* split_batches has returned; line 37, after the timeout, is its only return
SplitterTimedOut == splitter_pc = "done"

\* C18 as stated: in a healthy run neither worker ends through its receive
\* timeout.
C18_NoTimeoutWhenHealthy ==
    Healthy => (~SplitterTimedOut /\ renderer_pc # "raised_empty")

\* C18 as amended: in a healthy run make_video never ends through its
\* receive timeout, and split_batches ends through its timeout only at the
\* end of the stream: every batch was enqueued and received, and every one
\* of the N frames was handed on.
C18_TimeoutOnlyAtEndOfStream ==
    Healthy =>
        /\ renderer_pc # "raised_empty"
        /\ SplitterTimedOut =>
              /\ Len(put_log) = CeilDiv(N, batch_size)
              /\ Len(split_got) = CeilDiv(N, batch_size)
              /\ split_queue = <<>>
              /\ Len(frames_put) = N

C18_Witness ==
    /\ Healthy
    /\ N = 3
    /\ SplitterTimedOut
    /\ renderer_pc = "done"
    /\ sched_pc = "returned"

\* C19: a worker that runs has a first batch behind it; the two workers are
\* started together, by lines 154-155 only, and those lines are reached
\* only with both threads not yet started and exactly one batch enqueued;
\* a run with N >= 1 that gets through its loop has started them.
C19_WorkersStartedOnceAfterFirstPut ==
    /\ []((splitter_pc # "created" \/ renderer_pc # "created") => Len(put_log) >= 1)
    /\ []((splitter_pc = "created") <=> (renderer_pc = "created"))
    /\ [](sched_pc = "start_workers" =>
            (splitter_pc = "created" /\ renderer_pc = "created" /\ Len(put_log) = 1))
    /\ []((LoopDone /\ N >= 1) => splitter_pc # "created")
    /\ [][(splitter_pc = "created" /\ splitter_pc' # "created") => StartWorkers]_vars
    /\ [][(renderer_pc = "created" /\ renderer_pc' # "created") => StartWorkers]_vars
    /\ [][splitter_pc' = "created" => splitter_pc = "created"]_vars

C19_Witness ==
    /\ N = 3
    /\ batch_size = 1
    /\ LoopDone
    /\ Len(put_log) = 3
    /\ splitter_pc # "created"
    /\ renderer_pc # "created"

\* C20: for every N >= 0, when render() is at or past its joins both
\* workers have been started, and no join raises for a thread never
\* started; with N = 0 a run that returned has closed the encoder's stdin.
C20_JoinedWorkersWereStarted ==
    /\ (LoopDone => (splitter_pc # "created" /\ renderer_pc # "created"))
    /\ sched_err # "L157"
    /\ ((N = 0 /\ sched_pc = "returned") => stdin_closed)

====
